---- MODULE Spec2Model ----
(***************************************************************************)
(* Model of backboard.cockpit.Cockpit (src/backboard/cockpit.py): the      *)
(* extension request aggregator (_merge_batch_grad_transforms,             *)
(* _process_multiple_batch_grad_transforms, _process_duplicate_extensions, *)
(* _get_extensions) and the per-step lifecycle of the cockpit (__init__,   *)
(* __call__, backward pass, track, buffer reclamation, log, write).        *)
(*                                                                         *)
(* Specifications:                                                         *)
(*   SpecAgg      the aggregator's pure functions applied to drawn inputs  *)
(*   Spec         the cockpit driven by a training loop                    *)
(*   SpecLog      the training loop with log and write                     *)
(*   SpecBench    the benchmark harness's checks (benchmark.py)            *)
(*   SpecReclaim  buffer reclamation applied to drawn field sets           *)
(*   SpecFail     the training loop with quantities whose compute raises   *)
(*   SpecCollect  _collect_quantities applied to drawn configurations      *)
(***************************************************************************)
EXTENDS Integers, Sequences, FiniteSets, TLC

VARIABLES
    fn,              \* the function a pure-function specification applied ("none" before)
    arg,             \* the arguments passed to it (SpecAgg: a list of extension requests)
    res,             \* what it returned or raised
    pc,              \* Spec: position of the training loop / of the handler in progress
    tproblem,        \* Spec: the target handed to the constructor (kind and network)
    conf,            \* Spec: constructor arguments quantities and track_interval
    quantities,      \* self.quantities
    create_graph,    \* self.create_graph
    output,          \* self.output, the combined log: step -> key -> value
    qoutput,         \* q.output of every owned quantity (by position): step -> key -> value
    qstate,          \* what every owned quantity retains between compute calls (by position)
    ext,             \* the local ext of the last __call__, captured by its context manager
    ctx,             \* the context the last __call__ returned
    global_step,     \* the step the training loop is at
    param_fields,    \* fields attached to every parameter of the network
    module_fields,   \* fields attached to every module of the network
    events,          \* what the running (or last) track call did, in order
    env,             \* effects of the constructor outside the object (log directory, plotter)
    logfile,         \* the log file write dumps the combined log to
    err              \* the exception that ended the run, "none" while it runs

vars == << fn, arg, res, pc, tproblem, conf, quantities, create_graph, output, qoutput,
           qstate, ext, ctx, global_step, param_fields, module_fields, events, env,
           logfile, err >>

aggVars == << fn, arg, res >>

cockpitVars == << pc, tproblem, conf, quantities, create_graph, output, qoutput,
                  qstate, ext, ctx, global_step, param_fields, module_fields, events, env,
                  logfile, err >>

-----------------------------------------------------------------------------
(* Bounds of the model *)

\* longest list of extension requests drawn as input of an aggregator function
MaxLen == 3

\* longest list of quantities a cockpit is configured with
MaxQuantities == 2

\* the training loop runs steps 0 .. MaxStep
MaxStep == 1

\* the training loop writes the log file at most MaxWrites times
MaxWrites == 2

-----------------------------------------------------------------------------
(* Extension requests (backpack.extensions objects) *)

\* keys of the transform maps of BatchGradTransforms requests
Keys == {"x", "y"}

\* identities of the transform functions (id(func))
Funcs == {"f", "g"}

\* a dict without entries
EmptyMap == [k \in {} |-> "f"]

\* all transform maps: dicts from some keys to function objects
TransformMaps == UNION {[S -> Funcs] : S \in SUBSET Keys}

\* BatchGradTransforms(transforms): the request holding the dict
BatchGradTransforms(transforms) ==
    [kind |-> "BatchGradTransforms", cfg |-> 0, trafo |-> transforms]

\* a request of another kind; cfg stands for its configuration (e.g. mc_samples)
PlainExtension(kind, cfg) == [kind |-> kind, cfg |-> cfg, trafo |-> EmptyMap]

\* type(e)
TypeOf(e) == e.kind

\* isinstance(e, BatchGradTransforms)
IsBatchGradTransforms(e) == TypeOf(e) = "BatchGradTransforms"

\* t.get_transforms()
get_transforms(e) == e.trafo

\* e.savefield: the parameter attribute the backward pass stores e's result under
savefield(e) ==
    CASE TypeOf(e) = "BatchGradTransforms" -> "grad_batch_transforms"
      [] TypeOf(e) = "DiagHessian"         -> "diag_h"
      [] TypeOf(e) = "BatchGrad"           -> "grad_batch"
      [] OTHER                             -> "unknown"

\* the requests inputs are drawn from
PlainPool == {PlainExtension("BatchGrad", 1),
              PlainExtension("DiagHessian", 1),
              PlainExtension("DiagHessian", 2)}

BGTPool == {BatchGradTransforms(m) : m \in TransformMaps}

ExtPool == PlainPool \cup BGTPool

SeqsUpTo(S, n) == UNION {[1..k -> S] : k \in 0..n}

-----------------------------------------------------------------------------
(* Helpers for Python lists and dicts *)

Range(s) == {s[i] : i \in DOMAIN s}

\* list(d.keys()): the keys of a dict as a list
RECURSIVE KeyList(_)
KeyList(S) ==
    IF S = {} THEN << >>
    ELSE LET k == CHOOSE x \in S : TRUE IN << k >> \o KeyList(S \ {k})

\* d.update(t) that drops what d held
DictUpdateReplace(d, t) == t

\* d.update(t): entries of t are added to d and replace those of d with the same key
DictUpdate(d, t) ==
    [k \in (DOMAIN d) \cup (DOMAIN t) |-> IF k \in DOMAIN t THEN t[k] ELSE d[k]]

\* F applied to the value of v: v is computed once, as an assignment to a local does
Let(v, F(_)) == CHOOSE r \in {F(x) : x \in {v}} : TRUE

\* results of a call: a value, or an exception raised
Returned(v) == [raised |-> "none", val |-> v]
Raise(e, dummy) == [raised |-> e, val |-> dummy]

-----------------------------------------------------------------------------
(* The extension request aggregator *)

\* what stands in for the value of a call that raised
NoExt == PlainExtension("none", 0)

\* the constructor's quantities argument: None, or a list of entries
NoneQuantities == [none |-> TRUE, list |-> << >>]
ListedQuantities(l) == [none |-> FALSE, list |-> l]

\* the log file before anything is written to it; writes counts how often it was written
NoFile == [exists |-> FALSE, content |-> << >>, writes |-> 0]

\* no context: __call__ has not returned one yet
NoContext == [kind |-> "none", exts |-> << >>]

\* keys = []; for t in transforms: keys += list(t.keys())
RECURSIVE CollectKeys(_)
CollectKeys(transforms) ==
    IF Len(transforms) = 0 THEN << >>
    ELSE KeyList(DOMAIN Head(transforms)) \o CollectKeys(Tail(transforms))

\* not len(keys) == len(set(keys))
NonUniqueNever(keys) == FALSE
NonUnique(keys) == Len(keys) # Cardinality(Range(keys))

\* combined_transforms = {}; for t in transforms: combined_transforms.update(t)
RECURSIVE CombineTransforms(_, _)
CombineTransforms(combined, transforms) ==
    IF Len(transforms) = 0 THEN combined
    ELSE CombineTransforms(DictUpdate(combined, Head(transforms)), Tail(transforms))

\* Cockpit._merge_batch_grad_transforms
merge_batch_grad_transforms(batch_grad_transforms) ==
    LET transforms == [i \in 1..Len(batch_grad_transforms) |->
                          get_transforms(batch_grad_transforms[i])]
        keys == CollectKeys(transforms)
    IN  IF NonUnique(keys)
        THEN Raise("ValueError", NoExt)
        ELSE Returned(BatchGradTransforms(CombineTransforms(EmptyMap, transforms)))

NotBatchGradTransforms(e) == ~IsBatchGradTransforms(e)

\* a processing that puts the merged transform request first
process_multiple_transforms_first(e) ==
    IF Len(SelectSeq(e, IsBatchGradTransforms)) = 0
    THEN Returned(SelectSeq(e, NotBatchGradTransforms))
    ELSE Let(merge_batch_grad_transforms(SelectSeq(e, IsBatchGradTransforms)), LAMBDA merged :
             IF merged.raised # "none" THEN Raise(merged.raised, << >>)
             ELSE Returned(<< merged.val >> \o SelectSeq(e, NotBatchGradTransforms)))

\* Cockpit._process_multiple_batch_grad_transforms
process_multiple_batch_grad_transforms(e) ==
    LET transforms == SelectSeq(e, IsBatchGradTransforms)
        no_transforms == SelectSeq(e, NotBatchGradTransforms)
    IN  IF Len(transforms) > 0
        THEN LET merged == merge_batch_grad_transforms(transforms)
             IN  IF merged.raised # "none"
                 THEN Raise(merged.raised, << >>)
                 ELSE Returned(Append(no_transforms, merged.val))
        ELSE Returned(no_transforms)

\* a loop that keeps the last request of every type
DuplicateLoopLast(e, ext_dict, no_duplicate_ext) ==
    LET IsLast(i) == \A j \in (i + 1)..Len(e) : TypeOf(e[j]) # TypeOf(e[i])
        last == SelectSeq([i \in 1..Len(e) |-> i], IsLast)
    IN  [k \in 1..Len(last) |-> e[last[k]]]

\* the loop of _process_duplicate_extensions: ext_dict holds the types seen so far
RECURSIVE DuplicateLoop(_, _, _)
DuplicateLoop(e, ext_dict, no_duplicate_ext) ==
    IF Len(e) = 0 THEN no_duplicate_ext
    ELSE IF TypeOf(Head(e)) \in ext_dict
         THEN DuplicateLoop(Tail(e), ext_dict, no_duplicate_ext)
         ELSE DuplicateLoop(Tail(e), ext_dict \cup {TypeOf(Head(e))},
                            Append(no_duplicate_ext, Head(e)))

\* a deduplication that removes nothing
process_duplicate_extensions_keep(e) == e

\* Cockpit._process_duplicate_extensions
process_duplicate_extensions(e) == DuplicateLoop(e, {}, << >>)

-----------------------------------------------------------------------------
(* SpecAgg: the aggregator functions applied to drawn lists of requests *)

\* the cockpit is not part of SpecAgg: its variables rest
CockpitAtRest ==
    /\ pc = "none"
    /\ tproblem = [is_testproblem |-> FALSE, net |-> 0]
    /\ conf = [quantities |-> NoneQuantities, track_interval |-> 1]
    /\ quantities = << >>
    /\ create_graph = FALSE
    /\ output = << >>
    /\ qoutput = << >>
    /\ qstate = << >>
    /\ ext = << >>
    /\ ctx = NoContext
    /\ global_step = 0
    /\ param_fields = << >>
    /\ module_fields = << >>
    /\ events = << >>
    /\ env = [logdir |-> FALSE, plotter |-> FALSE, extended |-> FALSE, cockpit |-> FALSE]
    /\ logfile = NoFile
    /\ err = "none"

InitAgg ==
    /\ fn = "none"
    /\ arg \in SeqsUpTo(ExtPool, MaxLen)
    /\ res = Returned(<< >>)
    /\ CockpitAtRest

\* Cockpit._merge_batch_grad_transforms(arg); its callers pass BatchGradTransforms only
MergeCall ==
    /\ fn = "none"
    /\ \A i \in DOMAIN arg : IsBatchGradTransforms(arg[i])
    /\ fn' = "merge"
    /\ res' = merge_batch_grad_transforms(arg)
    /\ UNCHANGED << arg, cockpitVars >>

\* Cockpit._process_multiple_batch_grad_transforms(arg)
ProcessMultipleCall ==
    /\ fn = "none"
    /\ fn' = "process_multiple"
    /\ res' = process_multiple_batch_grad_transforms(arg)
    /\ UNCHANGED << arg, cockpitVars >>

\* Cockpit._process_duplicate_extensions(arg)
ProcessDuplicateCall ==
    /\ fn = "none"
    /\ fn' = "process_duplicate"
    /\ res' = Returned(process_duplicate_extensions(arg))
    /\ UNCHANGED << arg, cockpitVars >>

NextAgg == MergeCall \/ ProcessMultipleCall \/ ProcessDuplicateCall

SpecAgg == InitAgg /\ [][NextAgg]_vars

-----------------------------------------------------------------------------
(* Quantities (backboard.quantities) *)

\* the quantity classes cockpits are configured with here
QuantityClasses == {"MaxEV", "TICDiag", "MeanGSNR", "NormTest", "Trace", "AlphaOptimized"}

\* the requests a quantity of a class issues at a step it tracks
ClassExtensions(cls) ==
    CASE cls = "TICDiag"  -> << BatchGradTransforms("x" :> "f"),
                                PlainExtension("DiagHessian", 1) >>
      [] cls = "MeanGSNR" -> << BatchGradTransforms("x" :> "f" @@ "y" :> "g") >>
      [] cls = "NormTest" -> << BatchGradTransforms("y" :> "f") >>
      [] cls = "Trace"    -> << PlainExtension("DiagHessian", 2) >>
      [] cls = "AlphaOptimized" -> << PlainExtension("BatchGrad", 0) >>
      [] OTHER            -> << >>

\* whether a quantity of a class differentiates the loss a second time
ClassNeedsGraph(cls) == cls = "MaxEV"

\* the key a quantity of a class stores its value under
OutputKey(cls) ==
    CASE cls = "MaxEV"    -> "max_ev"
      [] cls = "TICDiag"  -> "tic_diag"
      [] cls = "MeanGSNR" -> "mean_gsnr"
      [] cls = "NormTest" -> "norm_test"
      [] cls = "Trace"    -> "trace"
      [] cls = "AlphaOptimized" -> "alpha"
      [] OTHER            -> "value"

\* q = cls(track_interval)
NewQuantity(cls, track_interval) == [cls |-> cls, track_interval |-> track_interval]

\* isinstance(q, quantities.MaxEV)
IsMaxEV(q) == q.cls = "MaxEV"

\* quantity_cls._start_end_difference: how many steps after its start a window closes;
\* 0 for a single-step quantity, whose window is one step
start_end_difference(cls) == IF cls = "AlphaOptimized" THEN 1 ELSE 0

\* the schedule of q fires every track_interval steps: a window starts at step
is_start(q, step) == step % q.track_interval = 0

\* a window of q that started inside the run closes at step
is_end(q, step) ==
    /\ step >= start_end_difference(q.cls)
    /\ is_start(q, step - start_end_difference(q.cls))

\* q.should_compute(step): q takes an observation at the start and at the end of a window
should_compute(q, step) == is_start(q, step) \/ is_end(q, step)

\* q.extensions(step)
extensions(q, step) == IF should_compute(q, step) THEN ClassExtensions(q.cls) ELSE << >>

\* q.create_graph(step)
q_create_graph(q, step) == ClassNeedsGraph(q.cls) /\ should_compute(q, step)

\* what a quantity retains before its first compute call: no start observation (-1), and
\* the steps whose observation compute was passed
NewState == [start |-> -1, observed |-> {}]

\* the value q computes for the window that started at step; it depends on the step and
\* on how the instance is configured
OutputValue(q, step) == 10 * q.track_interval + step

\* a two-point quantity that stores a value as soon as a window starts
compute_at_start(q, out, state, step) ==
    IF is_start(q, step)
    THEN [k \in (DOMAIN out) \cup {step} |->
             IF k = step THEN OutputKey(q.cls) :> OutputValue(q, step) ELSE out[k]]
    ELSE out

\* q.compute(step, params, batch_loss), its effect on q.output: when a window closes at
\* step and its start observation is retained, the value is stored under the start step
compute(q, out, state, step) ==
    LET shift == start_end_difference(q.cls)
        start == step - shift
    IN  IF is_end(q, step) /\ (shift = 0 \/ state.start = start)
        THEN [k \in (DOMAIN out) \cup {start} |->
                 IF k = start THEN OutputKey(q.cls) :> OutputValue(q, start) ELSE out[k]]
        ELSE out

\* q.compute(step, params, batch_loss), its effect on what q retains: a two-point
\* quantity keeps the observation of a step that starts a window until the next one
retain(q, state, step) ==
    IF ~should_compute(q, step) THEN state
    ELSE [start |-> IF start_end_difference(q.cls) > 0 /\ is_start(q, step)
                    THEN step ELSE -1,
          observed |-> state.observed \cup {step}]

-----------------------------------------------------------------------------
(* The network of the training problem (tproblem.net) *)

\* module -> its children; module 1 is the root
NetChildren(net) ==
    CASE net = 1 -> (1 :> << >>)
      [] net = 2 -> (1 :> << 2 >> @@ 2 :> << >>)
      [] net = 3 -> (1 :> << 2, 3 >> @@ 2 :> << >> @@ 3 :> << 4 >> @@ 4 :> << >>)

\* parameter -> requires_grad
NetRequiresGrad(net) ==
    CASE net = 1 -> (1 :> TRUE)
      [] net = 2 -> (1 :> TRUE @@ 2 :> TRUE)
      [] net = 3 -> (1 :> TRUE @@ 2 :> FALSE)

Nets == {1, 2, 3}

Modules(net) == DOMAIN NetChildren(net)

Parameters(net) == DOMAIN NetRequiresGrad(net)

\* has_children(net)
has_children(net, module) == Len(NetChildren(net)[module]) > 0

Leaves(net) == {m \in Modules(net) : ~has_children(net, m)}

\* the fields reclamation deletes from modules
io_fields == << "input0", "output" >>

-----------------------------------------------------------------------------
(* The cockpit *)

\* an entry of the constructor's quantities list: a class, or an instance
ClassEntry(cls) == [isclass |-> TRUE, q |-> NewQuantity(cls, 0)]
InstanceEntry(q) == [isclass |-> FALSE, q |-> q]

\* Cockpit.default_quantities
default_quantities ==
    << ClassEntry("AlphaOptimized"), ClassEntry("BatchGradHistogram1d"),
       ClassEntry("BatchGradHistogram2d"), ClassEntry("Distance"), ClassEntry("GradNorm"),
       ClassEntry("InnerProductTest"), ClassEntry("Loss"), ClassEntry("MaxEV"),
       ClassEntry("MeanGSNR"), ClassEntry("NormTest"), ClassEntry("OrthogonalityTest"),
       ClassEntry("TICDiag"), ClassEntry("Trace") >>

\* a loop that instantiates every entry's class with the cockpit's track_interval
CollectLoopInstantiateAll(entries, track_interval) ==
    [i \in 1..Len(entries) |-> NewQuantity(entries[i].q.cls, track_interval)]

\* quants = []; for q in cockpit_quantities: quants.append(q(track_interval) or q)
RECURSIVE CollectLoop(_, _)
CollectLoop(entries, track_interval) ==
    IF Len(entries) = 0 THEN << >>
    ELSE LET entry == Head(entries)
             quant == IF entry.isclass
                      THEN NewQuantity(entry.q.cls, track_interval)
                      ELSE entry.q
         IN  << quant >> \o CollectLoop(Tail(entries), track_interval)

\* Cockpit._collect_quantities
collect_quantities(cockpit_quantities, track_interval) ==
    CollectLoop(IF cockpit_quantities.none THEN default_quantities
                ELSE cockpit_quantities.list,
                track_interval)

\* ext = []; for q in self.quantities: ext += q.extensions(global_step)
RECURSIVE CollectExtensions(_, _)
CollectExtensions(qs, step) ==
    IF Len(qs) = 0 THEN << >>
    ELSE extensions(Head(qs), step) \o CollectExtensions(Tail(qs), step)

\* Cockpit._get_extensions
get_extensions(qs, step) ==
    Let(process_multiple_batch_grad_transforms(CollectExtensions(qs, step)), LAMBDA merged :
        IF merged.raised # "none" THEN merged
        ELSE Returned(process_duplicate_extensions(merged.val)))

\* any(q.create_graph(0) for q in self.quantities): the need at the first step
any_create_graph_first_step(qs, step) == \E i \in DOMAIN qs : q_create_graph(qs[i], 0)

\* any(q.create_graph(global_step) for q in self.quantities)
RECURSIVE any_create_graph(_, _)
any_create_graph(qs, step) ==
    IF Len(qs) = 0 THEN FALSE
    ELSE q_create_graph(Head(qs), step) \/ any_create_graph(Tail(qs), step)

\* the context manager __call__ returns: backpack(*ext) if ext else nullcontext
context_always_backpack(e) == [kind |-> "backpack", exts |-> e]
context_manager(e) ==
    IF Len(e) > 0 THEN [kind |-> "backpack", exts |-> e]
    ELSE [kind |-> "nullcontext", exts |-> << >>]

\* delattr(obj, field): raises AttributeError when obj has no such field
delattr(fields, field) ==
    IF field \in fields THEN Returned(fields \ {field})
    ELSE Raise("AttributeError", fields)

\* for e in ext: try: delattr(param, e.savefield) except AttributeError: pass
RECURSIVE FreeParam(_, _)
FreeParam(fields, e) ==
    IF Len(e) = 0 THEN fields
    ELSE LET deleted == delattr(fields, savefield(Head(e)))
         IN  IF deleted.raised = "AttributeError"
             THEN FreeParam(fields, Tail(e))
             ELSE FreeParam(deleted.val, Tail(e))

\* a reclamation that asks the quantities for the requests of the step after
free_backpack_buffers_next_step(qs, pfields, step) ==
    Let(get_extensions(qs, step + 1), LAMBDA e :
        IF e.raised # "none" THEN Raise(e.raised, pfields)
        ELSE Returned([p \in DOMAIN pfields |-> FreeParam(pfields[p], e.val)]))

\* Cockpit._free_backpack_buffers: the parameter fields after it, or what it raised
free_backpack_buffers(qs, pfields, step) ==
    Let(get_extensions(qs, step), LAMBDA e :
        IF e.raised # "none" THEN Raise(e.raised, pfields)
        ELSE Returned([p \in DOMAIN pfields |-> FreeParam(pfields[p], e.val)]))

\* a removal that gives up at a field the module does not hold
RemoveFieldsOrGiveUp(fields, names) ==
    IF Range(names) \subseteq fields THEN fields \ Range(names) ELSE fields

\* remove_module_io(module)
RECURSIVE RemoveFields(_, _)
RemoveFields(fields, names) ==
    IF Len(names) = 0 THEN fields
    ELSE LET deleted == delattr(fields, Head(names))
         IN  IF deleted.raised = "AttributeError"
             THEN RemoveFields(fields, Tail(names))
             ELSE RemoveFields(deleted.val, Tail(names))

remove_module_io(fields) == RemoveFields(fields, io_fields)

\* a walk that strips every module of the network, whether it has children or not
remove_net_io_all(net, st, module) ==
    [fields |-> [m \in DOMAIN st.fields |-> remove_module_io(st.fields[m])],
     visits |-> [i \in 1..Cardinality(DOMAIN st.fields) |-> i]]

\* remove_net_io(module); st holds the fields of every module and, in visits, the
\* modules remove_module_io was called on so far
RECURSIVE remove_net_io(_, _, _)
RECURSIVE RemoveChildrenIO(_, _, _)
remove_net_io(net, st, module) ==
    IF has_children(net, module)
    THEN RemoveChildrenIO(net, st, NetChildren(net)[module])
    ELSE [fields |-> [st.fields EXCEPT ![module] = remove_module_io(@)],
          visits |-> Append(st.visits, module)]

\* for mod in module.children(): remove_net_io(mod)
RemoveChildrenIO(net, st, children) ==
    IF Len(children) = 0 THEN st
    ELSE Let(remove_net_io(net, st, Head(children)), LAMBDA stripped :
             RemoveChildrenIO(net, stripped, Tail(children)))

\* remove_net_io(self.tproblem.net), the call that ends _free_backpack_io
walk_net_io(net, mfields) == remove_net_io(net, [fields |-> mfields, visits |-> << >>], 1)

\* Cockpit._free_backpack_io: the fields of every module after it
free_backpack_io(net, mfields) == walk_net_io(net, mfields).fields

Indices(qs) == [i \in 1..Len(qs) |-> i]

\* every quantity, eigen-based or not
all_quantities(qs) == Indices(qs)

\* before_cleanup = [q for q in self.quantities if not isinstance(q, quantities.MaxEV)]
before_cleanup(qs) ==
    LET NotMaxEV(i) == ~IsMaxEV(qs[i]) IN SelectSeq(Indices(qs), NotMaxEV)

\* no quantity is computed after the cleanup
after_cleanup_none(qs) == << >>

\* after_cleanup = [q for q in self.quantities if isinstance(q, quantities.MaxEV)]
after_cleanup(qs) ==
    LET MaxEV(i) == IsMaxEV(qs[i]) IN SelectSeq(Indices(qs), MaxEV)

Event(op, i) == [op |-> op, q |-> i]

\* for q in idx: q.compute(global_step, params, batch_loss); st.failing holds the
\* quantities whose compute raises in this call, the exception ends the loop
RECURSIVE ComputeLoop(_, _, _, _)
ComputeLoop(qs, idx, st, step) ==
    IF Len(idx) = 0 THEN st
    ELSE IF Head(idx) \in st.failing
    THEN [st EXCEPT !.raised = "RuntimeError",
                    !.events = Append(@, Event("raise", Head(idx)))]
    ELSE Let([st EXCEPT !.qoutput[Head(idx)] =
                            compute(qs[Head(idx)], @, st.qstate[Head(idx)], step),
                        !.qstate[Head(idx)] = retain(qs[Head(idx)], @, step),
                        !.events = Append(@, Event("compute", Head(idx)))],
             LAMBDA computed : ComputeLoop(qs, Tail(idx), computed, step))

\* a track that reclaims the buffers whether the computes before it raised or not
track_reclaim_always(qs, net, st, step) ==
    Let(ComputeLoop(qs, before_cleanup(qs), st, step), LAMBDA st1 :
    Let(free_backpack_buffers(qs, st1.param_fields, step), LAMBDA freed :
    Let(IF freed.raised # "none"
        THEN [st1 EXCEPT !.raised = freed.raised]
        ELSE [st1 EXCEPT !.param_fields = freed.val,
                         !.module_fields = free_backpack_io(net, @),
                         !.events = Append(Append(@, Event("free_buffers", 0)),
                                           Event("free_io", 0))], LAMBDA st3 :
        IF st3.raised # "none" THEN st3
        ELSE ComputeLoop(qs, after_cleanup(qs), st3, step))))

\* Cockpit.track: st holds qoutput, qstate, param_fields, module_fields, events, raised
\* and failing; an exception leaves track where it is raised
track(qs, net, st, step) ==
    Let(ComputeLoop(qs, before_cleanup(qs), st, step), LAMBDA st1 :
    IF st1.raised # "none" THEN st1
    ELSE
    Let(free_backpack_buffers(qs, st1.param_fields, step), LAMBDA freed :
    Let(IF freed.raised # "none"
        THEN [st1 EXCEPT !.raised = freed.raised]
        ELSE [st1 EXCEPT !.param_fields = freed.val,
                         !.events = Append(@, Event("free_buffers", 0))], LAMBDA st2 :
    Let(IF st2.raised # "none" THEN st2
        ELSE [st2 EXCEPT !.module_fields = free_backpack_io(net, @),
                         !.events = Append(@, Event("free_io", 0))], LAMBDA st3 :
        IF st3.raised # "none" THEN st3
        ELSE ComputeLoop(qs, after_cleanup(qs), st3, step)))))

\* Cockpit.__init__ after the quantities are collected: what it does outside the object,
\* and what it raises
init_prepare_first(is_testproblem, e) ==
    IF is_testproblem
    THEN Returned([e EXCEPT !.extended = TRUE, !.logdir = TRUE, !.plotter = TRUE])
    ELSE Raise("NotImplementedError", [e EXCEPT !.logdir = TRUE])

init_effects(is_testproblem, e) ==
    IF is_testproblem
    THEN Returned([e EXCEPT !.extended = TRUE, !.logdir = TRUE, !.plotter = TRUE])
    ELSE Raise("NotImplementedError", e)

-----------------------------------------------------------------------------
(* Spec: a training loop constructs a cockpit and runs steps 0 .. MaxStep, each step  *)
(* __call__(s), the forward and backward pass, track(s)                               *)

\* the aggregator's variables are not part of Spec
AggAtRest == fn = "none" /\ arg = << >> /\ res = Returned(<< >>)

\* quantities handed to the constructor as instances
InstancePool == {NewQuantity("MaxEV", 2), NewQuantity("TICDiag", 2)}

Entries == {ClassEntry(c) : c \in QuantityClasses} \cup {InstanceEntry(q) : q \in InstancePool}

TrackIntervals == {1, 2}

Init ==
    /\ AggAtRest
    /\ pc = "new"
    /\ tproblem \in [is_testproblem : BOOLEAN, net : Nets]
    /\ conf \in [quantities : {ListedQuantities(l) : l \in SeqsUpTo(Entries, MaxQuantities)},
                 track_interval : TrackIntervals]
    /\ quantities = << >>
    /\ create_graph = FALSE
    /\ output = << >>
    /\ qoutput = << >>
    /\ qstate = << >>
    /\ ext = << >>
    /\ ctx = NoContext
    /\ global_step = 0
    /\ param_fields = [p \in Parameters(tproblem.net) |-> {}]
    /\ module_fields = [m \in Modules(tproblem.net) |-> {}]
    /\ events = << >>
    /\ env = [logdir |-> FALSE, plotter |-> FALSE, extended |-> FALSE, cockpit |-> FALSE]
    /\ logfile = NoFile
    /\ err = "none"

\* Cockpit(tproblem, logpath, track_interval, quantities)
Construct ==
    /\ pc = "new"
    /\ quantities' = collect_quantities(conf.quantities, conf.track_interval)
    /\ qoutput' = [i \in 1..Len(quantities') |-> << >>]
    /\ qstate' = [i \in 1..Len(quantities') |-> NewState]
    /\ create_graph' = FALSE
    /\ output' = << >>
    /\ \E r \in {init_effects(tproblem.is_testproblem, env)} :
           IF r.raised # "none"
           THEN /\ env' = r.val
                /\ err' = r.raised
                /\ pc' = "failed"
           ELSE /\ env' = [r.val EXCEPT !.cockpit = TRUE]
                /\ err' = "none"
                /\ pc' = "idle"
    /\ UNCHANGED << aggVars, tproblem, conf, ext, ctx, global_step, param_fields,
                    module_fields, events, logfile >>

\* cockpit(global_step)
Call ==
    /\ pc = "idle"
    /\ \E e \in {get_extensions(quantities, global_step)} :
           IF e.raised # "none"
           THEN /\ err' = e.raised
                /\ pc' = "failed"
                /\ UNCHANGED << ext, create_graph, ctx >>
           ELSE /\ ext' = e.val
                /\ create_graph' = any_create_graph(quantities, global_step)
                /\ ctx' = context_manager(e.val)
                /\ pc' = "called"
                /\ err' = "none"
    /\ UNCHANGED << aggVars, tproblem, conf, quantities, output, qoutput, qstate,
                    global_step, param_fields, module_fields, events, env, logfile >>

\* the fields backpack(*ext) stores on a parameter during the backward pass
Materialized(context) ==
    IF context.kind = "backpack"
    THEN {savefield(context.exts[i]) : i \in DOMAIN context.exts}
    ELSE {}

\* the with-block of the step: the forward and backward pass run under the context
\* __call__ returned, and the context is left (backpack's or nullcontext's __exit__, no
\* code of the cockpit). The modules that are extended store their input and output,
\* the trainable parameters get a field per active extension
Backward ==
    /\ pc = "called"
    /\ \E extended \in SUBSET Modules(tproblem.net) :
           module_fields' = [m \in Modules(tproblem.net) |->
               IF m \in extended THEN module_fields[m] \cup Range(io_fields)
               ELSE module_fields[m]]
    /\ param_fields' = [p \in Parameters(tproblem.net) |->
           IF NetRequiresGrad(tproblem.net)[p]
           THEN param_fields[p] \cup Materialized(ctx)
           ELSE param_fields[p]]
    /\ pc' = "backward_done"
    /\ UNCHANGED << aggVars, tproblem, conf, quantities, create_graph, output, qoutput,
                    qstate, ext, ctx, global_step, events, env, logfile, err >>

\* cockpit.track(global_step, batch_loss), the compute of the quantities in failing
\* raising
TrackWith(failing) ==
    /\ pc = "backward_done"
    /\ \E st \in {track(quantities, tproblem.net,
                         [qoutput |-> qoutput, qstate |-> qstate,
                          param_fields |-> param_fields, module_fields |-> module_fields,
                          events |-> << >>, raised |-> "none", failing |-> failing],
                         global_step)} :
           /\ qoutput' = st.qoutput
           /\ qstate' = st.qstate
           /\ param_fields' = st.param_fields
           /\ module_fields' = st.module_fields
           /\ events' = st.events
           /\ err' = st.raised
           /\ pc' = IF st.raised # "none" THEN "failed" ELSE "tracked"
    /\ UNCHANGED << aggVars, tproblem, conf, quantities, create_graph, output, ext, ctx,
                    global_step, env, logfile >>

\* cockpit.track(global_step, batch_loss), no compute raising
Track == TrackWith({})

\* the training loop goes on to the next step
NextStep ==
    /\ pc = "tracked"
    /\ global_step < MaxStep
    /\ global_step' = global_step + 1
    /\ pc' = "idle"
    /\ UNCHANGED << aggVars, tproblem, conf, quantities, create_graph, output, qoutput,
                    qstate, ext, ctx, param_fields, module_fields, events, env, logfile,
                    err >>

Next == Construct \/ Call \/ Backward \/ Track \/ NextStep

Spec == Init /\ [][Next]_vars

-----------------------------------------------------------------------------
(* SpecLog: the training loop also logs the facts of an epoch and writes the log file; *)
(* an epoch is one step, the network is a single layer                                  *)

\* self.output[global_step][key] = value, self.output being a defaultdict(dict)
SetItem(out, step, key, value) ==
    [s \in (DOMAIN out) \cup {step} |->
        IF s # step THEN out[s]
        ELSE IF step \in DOMAIN out THEN DictUpdate(out[step], key :> value)
        ELSE key :> value]

\* the keys log stores its arguments under
LogKeys ==
    {"epoch_count", "train_loss", "valid_loss", "test_loss", "train_accuracy",
     "valid_accuracy", "test_accuracy", "learning_rate"}

\* a log call that starts from an empty combined log
log_fresh(out, step, m) == [s \in {step} |-> [k \in LogKeys |-> m[k]]]

\* Cockpit.log(global_step, epoch_count, ..., learning_rate): the combined log after it
log(out, step, m) ==
    Let(SetItem(out, step, "epoch_count", m.epoch_count), LAMBDA o1 :
    Let(SetItem(o1, step, "train_loss", m.train_loss), LAMBDA o2 :
    Let(SetItem(o2, step, "valid_loss", m.valid_loss), LAMBDA o3 :
    Let(SetItem(o3, step, "test_loss", m.test_loss), LAMBDA o4 :
    Let(SetItem(o4, step, "train_accuracy", m.train_accuracy), LAMBDA o5 :
    Let(SetItem(o5, step, "valid_accuracy", m.valid_accuracy), LAMBDA o6 :
    Let(SetItem(o6, step, "test_accuracy", m.test_accuracy), LAMBDA o7 :
        SetItem(o7, step, "learning_rate", m.learning_rate))))))))

\* the steps and keys two step -> key -> value mappings both define
ConflictsSharedKey(master, update) ==
    {<< s, k >> \in ((DOMAIN master) \cap (DOMAIN update)) \X {OutputKey(c) : c \in QuantityClasses} :
        k \in (DOMAIN master[s]) \cap (DOMAIN update[s])}

\* the steps and keys two step -> key -> value mappings both define, with different values
Conflicts(master, update) ==
    {<< s, k >> \in ((DOMAIN master) \cap (DOMAIN update)) \X {OutputKey(c) : c \in QuantityClasses} :
        /\ k \in (DOMAIN master[s]) \cap (DOMAIN update[s])
        /\ master[s][k] # update[s][k]}

\* master with the entries of update added, step by step
MergedDicts(master, update) ==
    [s \in (DOMAIN master) \cup (DOMAIN update) |->
        IF s \notin DOMAIN update THEN master[s]
        ELSE IF s \notin DOMAIN master THEN update[s]
        ELSE DictUpdate(master[s], update[s])]

\* a merge in which the value of update wins
update_dicts_overwrite(master, update) == Returned(MergedDicts(master, update))

\* _update_dicts(master, update): update is merged into master; a key that both define
\* for the same step with different values is a conflict
update_dicts(master, update) ==
    IF Conflicts(master, update) # {} THEN Raise("ValueError", master)
    ELSE Returned(MergedDicts(master, update))

\* for q in self.quantities: _update_dicts(self.output, q.output)
RECURSIVE WriteLoop(_, _)
WriteLoop(outs, master) ==
    IF Len(outs) = 0 THEN Returned(master)
    ELSE Let(update_dicts(master, Head(outs)), LAMBDA merged :
             IF merged.raised # "none" THEN merged
             ELSE WriteLoop(Tail(outs), merged.val))

\* json.dump(self.output, json_file, sort_keys=True): the keys of a JSON object are
\* strings, a step is written as its decimal string
json_dump(out) ==
    [name \in {ToString(s) : s \in DOMAIN out} |->
        out[CHOOSE s \in DOMAIN out : ToString(s) = name]]

\* the facts of an epoch the training loop passes to log
LogInputs ==
    {[epoch_count |-> e, train_loss |-> l, valid_loss |-> l + 1, test_loss |-> l + 2,
      train_accuracy |-> 9 - l, valid_accuracy |-> 8 - l, test_accuracy |-> 7 - l,
      learning_rate |-> 1] : e \in {0}, l \in {3, 4}}

\* cockpit.log(global_step, m.epoch_count, ..., m.learning_rate)
LogCall(m) ==
    /\ pc = "tracked"
    /\ \E logged \in {log(output, global_step, m)} : output' = logged
    /\ UNCHANGED << aggVars, pc, tproblem, conf, quantities, create_graph, qoutput, qstate,
                    ext, ctx, global_step, param_fields, module_fields, events, env,
                    logfile, err >>

Log == \E m \in LogInputs : LogCall(m)

\* cockpit.write()
Write ==
    /\ pc = "tracked"
    /\ logfile.writes < MaxWrites
    /\ \E merged \in {WriteLoop(qoutput, output)} :
           /\ output' = merged.val
           /\ IF merged.raised # "none"
              THEN /\ err' = merged.raised
                   /\ pc' = "failed"
                   /\ UNCHANGED logfile
              ELSE /\ logfile' = [exists |-> TRUE, content |-> json_dump(merged.val),
                                  writes |-> logfile.writes + 1]
                   /\ UNCHANGED << pc, err >>
    /\ UNCHANGED << aggVars, tproblem, conf, quantities, create_graph, qoutput, qstate,
                    ext, ctx, global_step, param_fields, module_fields, events, env >>

\* the quantities the cockpits of SpecLog are configured with
LogEntries ==
    {ClassEntry("MaxEV"), InstanceEntry(NewQuantity("MaxEV", 2)), ClassEntry("Trace")}

InitLog ==
    /\ Init
    /\ tproblem = [is_testproblem |-> TRUE, net |-> 1]
    /\ Range(conf.quantities.list) \subseteq LogEntries

NextLog == Construct \/ Call \/ Backward \/ Track \/ NextStep \/ Log \/ Write

SpecLog == InitLog /\ [][NextLog]_vars

-----------------------------------------------------------------------------
(* SpecFail: the step cycle with a quantity whose compute may raise; the network is a  *)
(* container with one layer                                                            *)

\* cockpit.track(global_step, batch_loss) in which the compute of one quantity raises
TrackRaising == \E i \in DOMAIN quantities : TrackWith({i})

InitFail == Init /\ tproblem = [is_testproblem |-> TRUE, net |-> 2]

NextFail == Construct \/ Call \/ Backward \/ Track \/ TrackRaising \/ NextStep

SpecFail == InitFail /\ [][NextFail]_vars

-----------------------------------------------------------------------------
(* SpecBench: the benchmark harness (backboard/benchmark/benchmark.py) applied to drawn *)
(* quantity lists                                                                      *)

\* a quantity instance handed to the harness, with the output it holds
BenchQuantity(cls, track_interval, out) ==
    [q |-> NewQuantity(cls, track_interval), output |-> out]

\* isinstance(q, Time)
IsTime(bq) == bq.q.cls = "Time"

\* timer.is_active(step): the schedule of the timer fires at step
is_active(bq, step) == is_start(bq.q, step)

\* for step in [0, max_steps]: if not timer.is_active(step): raise ValueError
RECURSIVE CheckActive(_, _)
CheckActive(timer, steps) ==
    IF Len(steps) = 0 THEN Returned("None")
    ELSE IF ~is_active(timer, Head(steps)) THEN Raise("ValueError", "None")
    ELSE CheckActive(timer, Tail(steps))

\* a check that is content with the first timer of the list
check_timer_first(qlist, max_steps) ==
    IF qlist.none THEN Raise("TypeError", "None")
    ELSE Let(SelectSeq(qlist.list, IsTime), LAMBDA timers :
             IF Len(timers) < 1 THEN Raise("ValueError", "None")
             ELSE CheckActive(timers[1], << 0, max_steps >>))

\* _check_timer(quantities, max_steps); iterating over None raises TypeError
check_timer(qlist, max_steps) ==
    IF qlist.none THEN Raise("TypeError", "None")
    ELSE Let(SelectSeq(qlist.list, IsTime), LAMBDA timers :
             IF Len(timers) # 1 THEN Raise("ValueError", "None")
             ELSE CheckActive(timers[1], << 0, max_steps >>))

\* _check_quantities(quantities)
check_quantities(qlist) ==
    IF qlist.none THEN Raise("ValueError", "None")
    ELSE IF \E i \in DOMAIN qlist.list : qlist.list[i].output # << >>
         THEN Raise("ValueError", "None")
    ELSE Returned("None")

\* what run_benchmark has done outside its arguments
NothingRun == [runner |-> FALSE, trained |-> FALSE]

\* run_benchmark(testproblem, quantities, max_steps, random_seed)
run_benchmark(qlist, max_steps) ==
    Let(check_timer(qlist, max_steps), LAMBDA timer_checked :
        IF timer_checked.raised # "none" THEN Raise(timer_checked.raised, NothingRun)
        ELSE Let(check_quantities(qlist), LAMBDA quantities_checked :
            IF quantities_checked.raised # "none"
            THEN Raise(quantities_checked.raised, NothingRun)
            ELSE Returned([runner |-> TRUE, trained |-> TRUE])))

\* the quantity instances the lists are drawn from: timers of two schedules, a fresh
\* quantity and one that was used before
BenchPool ==
    {BenchQuantity("Time", 1, << >>), BenchQuantity("Time", 2, << >>),
     BenchQuantity("Trace", 1, << >>), BenchQuantity("Trace", 1, 0 :> ("trace" :> 10))}

BenchSteps == {1, 2}

InitBench ==
    /\ fn = "none"
    /\ arg \in [quantities : {NoneQuantities}
                                \cup {ListedQuantities(l) : l \in SeqsUpTo(BenchPool, MaxLen)},
                 max_steps : BenchSteps]
    /\ res = Returned(<< >>)
    /\ CockpitAtRest

\* _check_timer(arg.quantities, arg.max_steps)
CheckTimerCall ==
    /\ fn = "none"
    /\ fn' = "check_timer"
    /\ res' = check_timer(arg.quantities, arg.max_steps)
    /\ UNCHANGED << arg, cockpitVars >>

\* run_benchmark(testproblem, arg.quantities, arg.max_steps, random_seed)
RunBenchmarkCall ==
    /\ fn = "none"
    /\ fn' = "run_benchmark"
    /\ res' = run_benchmark(arg.quantities, arg.max_steps)
    /\ UNCHANGED << arg, cockpitVars >>

NextBench == CheckTimerCall \/ RunBenchmarkCall

SpecBench == InitBench /\ [][NextBench]_vars

-----------------------------------------------------------------------------
(* SpecReclaim: buffer reclamation applied to parameters and modules that hold any     *)
(* fields                                                                              *)

\* the fields a parameter may hold: those of the extensions, and its gradient
ParamFieldNames == {"grad_batch_transforms", "diag_h", "grad"}

\* the fields a module may hold: the stored input and output, and its weight
ModuleFieldNames == {"input0", "output", "weight"}

\* the quantities of the cockpit whose reclamation is called
ReclaimQuantities ==
    {<< >>, << NewQuantity("TICDiag", 1) >>, << NewQuantity("Trace", 2) >>}

InitReclaim ==
    /\ fn = "none"
    /\ arg \in UNION {
           {[kind |-> "buffers", net |-> n, qs |-> qs, step |-> 0, fields |-> f] :
               qs \in ReclaimQuantities, f \in [Parameters(n) -> SUBSET ParamFieldNames]}
           \cup {[kind |-> "io", net |-> n, qs |-> << >>, step |-> 0, fields |-> f] :
               f \in [Modules(n) -> SUBSET ModuleFieldNames]} : n \in Nets}
    /\ res = Returned(<< >>)
    /\ CockpitAtRest

\* self._free_backpack_buffers(global_step), as track calls it (verbose=False)
FreeBuffersCall ==
    /\ fn = "none"
    /\ arg.kind = "buffers"
    /\ fn' = "free_backpack_buffers"
    /\ res' = free_backpack_buffers(arg.qs, arg.fields, arg.step)
    /\ UNCHANGED << arg, cockpitVars >>

\* self._free_backpack_io(), as track calls it (verbose=False)
FreeIOCall ==
    /\ fn = "none"
    /\ arg.kind = "io"
    /\ fn' = "free_backpack_io"
    /\ res' = Returned(free_backpack_io(arg.net, arg.fields))
    /\ UNCHANGED << arg, cockpitVars >>

NextReclaim == FreeBuffersCall \/ FreeIOCall

SpecReclaim == InitReclaim /\ [][NextReclaim]_vars

-----------------------------------------------------------------------------
(* Claims about the aggregator functions (SpecAgg) *)

PairwiseDisjointKeys(l) ==
    \A i, j \in DOMAIN l :
        i # j => (DOMAIN get_transforms(l[i])) \cap (DOMAIN get_transforms(l[j])) = {}

KeyUnion(l) == UNION {DOMAIN get_transforms(l[i]) : i \in DOMAIN l}

\* two of the requests map some key to different functions
DifferentTrafoCollision(l) ==
    \E i, j \in DOMAIN l :
        \E k \in (DOMAIN get_transforms(l[i])) \cap (DOMAIN get_transforms(l[j])) :
            get_transforms(l[i])[k] # get_transforms(l[j])[k]

\* two of the requests map some key to the same function
SameTrafoCollision(l) ==
    \E i, j \in DOMAIN l :
        /\ i # j
        /\ \E k \in (DOMAIN get_transforms(l[i])) \cap (DOMAIN get_transforms(l[j])) :
               get_transforms(l[i])[k] = get_transforms(l[j])[k]

KindsOf(l) == {TypeOf(l[i]) : i \in DOMAIN l}

\* C1: merging requests whose transform maps have pairwise disjoint keys returns one
\* BatchGradTransforms whose key set is the union of the input key sets and in which
\* every key maps to the function object it mapped to in its source request.
C1_MergeDisjointKeys ==
    (fn = "merge" /\ PairwiseDisjointKeys(arg)) =>
        /\ res.raised = "none"
        /\ IsBatchGradTransforms(res.val)
        /\ DOMAIN get_transforms(res.val) = KeyUnion(arg)
        /\ \A i \in DOMAIN arg : \A k \in DOMAIN get_transforms(arg[i]) :
               get_transforms(res.val)[k] = get_transforms(arg[i])[k]

\* three requests, two of them with a key each, merged into a map with both keys
C1_Witness ==
    /\ fn = "merge"
    /\ Len(arg) = 3
    /\ PairwiseDisjointKeys(arg)
    /\ Cardinality({i \in DOMAIN arg : DOMAIN get_transforms(arg[i]) # {}}) = 2
    /\ res.raised = "none"
    /\ DOMAIN get_transforms(res.val) = Keys

\* C2: merging requests two of which map some key to different functions raises
\* ValueError and returns no merged request.
C2_MergeConflictRaises ==
    (fn = "merge" /\ DifferentTrafoCollision(arg)) =>
        /\ res.raised = "ValueError"
        /\ res.val = NoExt

C2_Witness ==
    /\ fn = "merge"
    /\ Len(arg) = 2
    /\ DifferentTrafoCollision(arg)
    /\ res.raised = "ValueError"

\* C3: merging requests that map the same key to the same function object (and no key
\* to different functions) raises no error and returns a merged request in which that
\* key maps to that function.
C3_MergeSameTrafoAccepted ==
    (fn = "merge" /\ SameTrafoCollision(arg) /\ ~DifferentTrafoCollision(arg)) =>
        /\ res.raised = "none"
        /\ \A i \in DOMAIN arg : \A k \in DOMAIN get_transforms(arg[i]) :
               /\ k \in DOMAIN get_transforms(res.val)
               /\ get_transforms(res.val)[k] = get_transforms(arg[i])[k]

\* C4: _process_duplicate_extensions returns a list with exactly one request of each
\* kind of its input, each of them a request of the input, and none of another kind.
C4_OnePerKind ==
    fn = "process_duplicate" =>
        /\ res.raised = "none"
        /\ KindsOf(res.val) = KindsOf(arg)
        /\ \A i, j \in DOMAIN res.val :
               TypeOf(res.val[i]) = TypeOf(res.val[j]) => i = j
        /\ Range(res.val) \subseteq Range(arg)

\* two requests of one kind, with different configurations, collapsed to one
C4_Witness ==
    /\ fn = "process_duplicate"
    /\ \E i, j \in DOMAIN arg :
           i # j /\ TypeOf(arg[i]) = TypeOf(arg[j]) /\ arg[i] # arg[j]
    /\ Len(arg) = 3
    /\ Len(res.val) = 2
-----------------------------------------------------------------------------
(* Claims about the cockpit (Spec) *)

\* the requests the owned quantities issue at the current step, before aggregation
Requested == CollectExtensions(quantities, global_step)

RequestedTransforms == SelectSeq(Requested, IsBatchGradTransforms)

\* __call__ of the current step has ended, by returning or by raising
CallEnded == env.cockpit /\ (pc = "called" \/ (pc = "failed" /\ err = "ValueError"))

OnePerKind(l) == \A i, j \in DOMAIN l : TypeOf(l[i]) = TypeOf(l[j]) => i = j

\* C5: when the transform requests of the owned quantities do not conflict (no key is
\* mapped to different functions), the aggregated set of the step holds at most one
\* request per kind, and exactly one BatchGradTransforms request if a quantity
\* requested a named transform at the step and none otherwise.
C5_AggregatedSet ==
    (CallEnded /\ ~DifferentTrafoCollision(RequestedTransforms)) =>
        /\ pc = "called"
        /\ OnePerKind(ext)
        /\ Cardinality({i \in DOMAIN ext : IsBatchGradTransforms(ext[i])})
               = IF Len(RequestedTransforms) > 0 THEN 1 ELSE 0

\* C6: after a full step cycle (__call__, backward pass, track) no field the backend
\* materialized is attached to a parameter or to a module of the network.
C6_NoFieldRemains ==
    pc = "tracked" =>
        /\ \A p \in Parameters(tproblem.net) : param_fields[p] = {}
        /\ \A m \in Modules(tproblem.net) : module_fields[m] = {}

EventsOf(op) == {k \in DOMAIN events : events[k].op = op}

\* C7: within one track call every compute of a non-MaxEV quantity comes before
\* reclamation starts, and every compute of a MaxEV quantity comes after reclamation
\* of the parameter fields and of the module input/output has finished.
C7_TrackOrder ==
    pc = "tracked" =>
        /\ Cardinality(EventsOf("free_buffers")) = 1
        /\ Cardinality(EventsOf("free_io")) = 1
        /\ \A b \in EventsOf("free_buffers") : \A io \in EventsOf("free_io") :
               /\ b < io
               /\ \A k \in EventsOf("compute") :
                      IF IsMaxEV(quantities[events[k].q]) THEN k > io ELSE k < b

\* a MaxEV quantity listed before another quantity, computed after it and after cleanup
C7_Witness ==
    /\ pc = "tracked"
    /\ Len(quantities) = 2
    /\ IsMaxEV(quantities[1])
    /\ ~IsMaxEV(quantities[2])
    /\ events = << Event("compute", 2), Event("free_buffers", 0), Event("free_io", 0),
                   Event("compute", 1) >>

\* C8: after every __call__(s) the create_graph flag is true iff some owned quantity
\* reports create_graph(s): it is recomputed at each call.
C8_CreateGraphFlag ==
    pc \in {"called", "backward_done", "tracked"} =>
        (create_graph <=>
            \E i \in DOMAIN quantities :
                q_create_graph(quantities[i], global_step))

\* the flag, true after the call of step 0, is false after the call of step 1
C8_Witness ==
    /\ pc = "called"
    /\ global_step = 1
    /\ ~create_graph
    /\ \E i \in DOMAIN quantities : q_create_graph(quantities[i], 0)

NoScheduleFires == \A i \in DOMAIN quantities : ~should_compute(quantities[i], global_step)

\* C9: at a step at which no owned quantity's schedule fires, the aggregated set is
\* empty, __call__ returns the null context and create_graph is false; whenever the
\* aggregated set is not empty, a backpack context with exactly these requests is
\* returned.
C9_NullContext ==
    /\ (CallEnded /\ NoScheduleFires) =>
           /\ pc = "called"
           /\ ext = << >>
           /\ ctx.kind = "nullcontext"
           /\ ~create_graph
    /\ (pc = "called" /\ Len(ext) > 0) =>
           /\ ctx.kind = "backpack"
           /\ ctx.exts = ext

\* step 1 of a cockpit whose quantities track every second step and request extensions
C9_Witness ==
    /\ pc = "called"
    /\ global_step = 1
    /\ Len(quantities) = 2
    /\ NoScheduleFires
    /\ \E i \in DOMAIN quantities : Len(ClassExtensions(quantities[i].cls)) > 0
    /\ \E i \in DOMAIN quantities : ClassNeedsGraph(quantities[i].cls)
    /\ ctx.kind = "nullcontext"

\* C10: constructing a cockpit over a target that is no TestProblem raises; no cockpit
\* is returned, the log directory is not prepared and no plotter is created.
C10_ConstructorFailsFast ==
    (pc # "new" /\ ~tproblem.is_testproblem) =>
        /\ pc = "failed"
        /\ err = "NotImplementedError"
        /\ ~env.cockpit
        /\ ~env.logdir
        /\ ~env.plotter

C10_Witness ==
    /\ pc = "failed"
    /\ ~tproblem.is_testproblem
    /\ Len(conf.quantities.list) > 0
    /\ err = "NotImplementedError"

-----------------------------------------------------------------------------
(* Claims about the combined log (SpecLog) *)

\* two owned quantities hold different values under the same key for the same step
QuantitiesConflict ==
    \E i, j \in DOMAIN qoutput : i < j /\ Conflicts(qoutput[i], qoutput[j]) # {}

\* every value of the combined log before is still in the combined log after
ValuesKept(before, after) ==
    \A s \in DOMAIN before :
        /\ s \in DOMAIN after
        /\ \A k \in DOMAIN before[s] : k \in DOMAIN after[s] /\ after[s][k] = before[s][k]

\* C11: when write merges the quantities' outputs and two quantities define the same key
\* for the same step with different values, write fails with an error: no value of the
\* combined log is replaced by another and no log file is written
C11_WriteConflictFails ==
    [][(Write /\ QuantitiesConflict) =>
           /\ pc' = "failed"
           /\ err' = "ValueError"
           /\ ValuesKept(output, output')
           /\ \A s \in DOMAIN output' : \A k \in DOMAIN output'[s] :
                  \A i \in DOMAIN qoutput :
                      (s \in DOMAIN qoutput[i] /\ k \in DOMAIN qoutput[i][s]) =>
                          \E j \in DOMAIN qoutput :
                              /\ s \in DOMAIN qoutput[j]
                              /\ k \in DOMAIN qoutput[j][s]
                              /\ output'[s][k] = qoutput[j][s][k]
           /\ logfile' = logfile]_vars

\* a write failed on two MaxEV quantities that hold different values for the same step
C11_Witness ==
    /\ pc = "failed"
    /\ err = "ValueError"
    /\ events # << >>
    /\ QuantitiesConflict
    /\ ~logfile.exists

\* C18: log(s, ...) stores its eight arguments in the combined log under step s, each
\* under its key; the entries of the other steps, the other keys of step s, the output
\* of every quantity and the create_graph flag stay as they are
C18_LogFrame ==
    [][\A m \in LogInputs : LogCall(m) =>
           /\ DOMAIN output' = (DOMAIN output) \cup {global_step}
           /\ \A k \in LogKeys :
                  k \in DOMAIN output'[global_step] /\ output'[global_step][k] = m[k]
           /\ \A s \in (DOMAIN output) \ {global_step} : output'[s] = output[s]
           /\ global_step \in DOMAIN output =>
                  \A k \in (DOMAIN output[global_step]) \ LogKeys :
                      /\ k \in DOMAIN output'[global_step]
                      /\ output'[global_step][k] = output[global_step][k]
           /\ qoutput' = qoutput
           /\ create_graph' = create_graph]_vars

\* the facts of a later epoch are logged next to those of an earlier one and to the
\* values a write merged
C18_Witness ==
    /\ global_step > 0
    /\ 0 \in DOMAIN output
    /\ global_step \in DOMAIN output
    /\ LogKeys \subseteq DOMAIN output[global_step]
    /\ output[global_step]["train_loss"] = 4
    /\ (DOMAIN output[0]) \ LogKeys # {}
    /\ \E i \in DOMAIN qoutput : DOMAIN qoutput[i] # {}

-----------------------------------------------------------------------------
(* Claims about the outputs of the quantities over a run (Spec) *)

\* the run of MaxStep + 1 iterations is over
RunEnded == pc = "tracked" /\ global_step = MaxStep

\* the steps of the run at which a window of q starts that closes inside the run
TrackEvents(q) ==
    {i \in 0..MaxStep : is_start(q, i) /\ i + start_end_difference(q.cls) < MaxStep + 1}

\* C12: at the end of a run of N iterations the step keys of every quantity's output are
\* exactly the steps i < N its schedule selects whose window closes inside the run
\* (i + window shift < N, the shift of a single-step quantity being 0)
C12_OutputKeysAreTrackEvents ==
    RunEnded =>
        \A i \in DOMAIN quantities : DOMAIN qoutput[i] = TrackEvents(quantities[i])

\* a run ended with a two-point quantity whose last window did not close and with a
\* single-step quantity that skipped a step
C12_Witness ==
    /\ RunEnded
    /\ \E i \in DOMAIN quantities :
           /\ start_end_difference(quantities[i].cls) > 0
           /\ is_start(quantities[i], MaxStep)
           /\ 0 \in DOMAIN qoutput[i]
           /\ MaxStep \notin DOMAIN qoutput[i]
    /\ \E i \in DOMAIN quantities :
           /\ start_end_difference(quantities[i].cls) = 0
           /\ DOMAIN qoutput[i] \notin {{}, 0..MaxStep}

\* C13: the output of a two-point quantity holds an entry for a window only when the
\* observation of the step that starts the window and the observation of the step that
\* ends it have both been passed to compute
C13_NoEmitOnFirstObservation ==
    \A i \in DOMAIN quantities :
        start_end_difference(quantities[i].cls) > 0 =>
            \A k \in DOMAIN qoutput[i] :
                {k, k + start_end_difference(quantities[i].cls)} \subseteq qstate[i].observed

\* a two-point quantity holds the value of the window that started at step 0
C13_Witness ==
    \E i \in DOMAIN quantities :
        /\ start_end_difference(quantities[i].cls) > 0
        /\ 0 \in DOMAIN qoutput[i]
        /\ qstate[i].observed = {0, 1}

\* C14: once the with-block around the backward pass of step s is left, every quantity
\* scheduled at s holds an output entry under s, without a call of track
C14_AutomaticTrack ==
    pc = "backward_done" =>
        \A i \in DOMAIN quantities :
            (start_end_difference(quantities[i].cls) = 0 /\ is_start(quantities[i], global_step))
                => global_step \in DOMAIN qoutput[i]

-----------------------------------------------------------------------------
(* Claims about the benchmark harness (SpecBench) *)

\* how many Time quantities a list holds
NumTimers(l) == Cardinality({i \in DOMAIN l : l[i].q.cls = "Time"})

\* C19: a quantity list that does not hold exactly one Time quantity is rejected:
\* _check_timer raises ValueError, and run_benchmark raises it before a runner is
\* created or trained
C19_ExactlyOneTimer ==
    (fn \in {"check_timer", "run_benchmark"}
       /\ ~arg.quantities.none
       /\ NumTimers(arg.quantities.list) # 1) =>
        /\ res.raised = "ValueError"
        /\ fn = "run_benchmark" => (~res.val.runner /\ ~res.val.trained)

\* run_benchmark was called with two timers that both track at step 0 and max_steps
C19_Witness ==
    /\ fn = "run_benchmark"
    /\ ~arg.quantities.none
    /\ NumTimers(arg.quantities.list) = 2
    /\ \A i \in DOMAIN arg.quantities.list :
           is_active(arg.quantities.list[i], arg.max_steps)
    /\ res.raised = "ValueError"

-----------------------------------------------------------------------------
(* Claims about buffer reclamation (SpecReclaim) *)

\* the fields reclamation deletes from a parameter at the call's step
ReclaimedFields ==
    {savefield(e) : e \in Range(get_extensions(arg.qs, arg.step).val)}

\* C20: reclamation does not fail on a field that is absent: it raises nothing, a
\* parameter or leaf module loses exactly the reclaimed fields it holds, whichever of
\* them it lacks, and so one that holds none of them is left as it is
C20_MissingFieldsSwallowed ==
    /\ fn = "free_backpack_buffers" =>
           /\ res.raised = "none"
           /\ \A p \in Parameters(arg.net) :
                  res.val[p] = arg.fields[p] \ ReclaimedFields
    /\ fn = "free_backpack_io" =>
           /\ res.raised = "none"
           /\ \A m \in Leaves(arg.net) :
                  res.val[m] = arg.fields[m] \ Range(io_fields)

\* of two leaf modules one lacked the first field reclamation deletes and lost the
\* second, the other lacked both and was left as it was
C20_Witness ==
    /\ fn = "free_backpack_io"
    /\ \E m1, m2 \in Leaves(arg.net) :
           /\ m1 < m2
           /\ arg.fields[m1] = {"weight"}
           /\ res.val[m1] = {"weight"}
           /\ arg.fields[m2] = {"output", "weight"}
           /\ res.val[m2] = {"weight"}

-----------------------------------------------------------------------------
(* Further claims about the aggregator functions (SpecAgg) *)

\* the request at position i of the input is the first of its kind
IsFirstOfKind(i) == \A j \in 1..(i - 1) : TypeOf(arg[j]) # TypeOf(arg[i])

\* how many first occurrences the input holds up to position i
FirstsUpTo(i) == Cardinality({j \in 1..i : IsFirstOfKind(j)})

\* C21: _process_duplicate_extensions returns the first request of every kind of its
\* input, whatever the configuration of the later ones, in the order of the input
C21_FirstOccurrencesInOrder ==
    fn = "process_duplicate" =>
        /\ res.raised = "none"
        /\ Len(res.val) = FirstsUpTo(Len(arg))
        /\ \A i \in DOMAIN arg : IsFirstOfKind(i) => res.val[FirstsUpTo(i)] = arg[i]

\* of two requests of a kind with different configurations the first was kept, behind a
\* request of another kind that came before it
C21_Witness ==
    /\ fn = "process_duplicate"
    /\ Len(arg) = 3
    /\ TypeOf(arg[1]) # TypeOf(arg[2])
    /\ TypeOf(arg[2]) = TypeOf(arg[3])
    /\ arg[2].cfg # arg[3].cfg
    /\ res.val = << arg[1], arg[2] >>

\* the positions of the input that hold no transform request
PlainPositions == {i \in DOMAIN arg : ~IsBatchGradTransforms(arg[i])}

\* how many requests that are no transform request the input holds up to position i
PlainUpTo(i) == Cardinality({j \in 1..i : j \in PlainPositions})

\* C22: _process_multiple_batch_grad_transforms leaves its input list as it is; what it
\* returns is the requests of the input that are no transform requests, in their order,
\* followed by one transform request when the input holds at least one; for an input
\* without transform requests that is the input
C22_NonTransformsThenMerged ==
    [][ProcessMultipleCall =>
          /\ arg' = arg
          /\ res'.raised = "none" =>
                 /\ \A i \in PlainPositions : res'.val[PlainUpTo(i)] = arg[i]
                 /\ IF PlainPositions = DOMAIN arg
                    THEN res'.val = arg
                    ELSE /\ Len(res'.val) = Cardinality(PlainPositions) + 1
                         /\ IsBatchGradTransforms(res'.val[Len(res'.val)])]_vars

\* two transform requests in front of a request of another kind were merged into one
\* request behind it
C22_Witness ==
    /\ fn = "process_multiple"
    /\ res.raised = "none"
    /\ Len(arg) = 3
    /\ IsBatchGradTransforms(arg[1])
    /\ IsBatchGradTransforms(arg[2])
    /\ ~IsBatchGradTransforms(arg[3])
    /\ res.val = << arg[3], BatchGradTransforms("x" :> "f" @@ "y" :> "g") >>

-----------------------------------------------------------------------------
(* Further claims about the step cycle (Spec) *)

\* the save-fields of a list of requests
SaveFields(e) == {savefield(e[i]) : i \in DOMAIN e}

\* C23: track(s) returns, and the fields it takes from a parameter are the save-fields
\* of the requests __call__(s) handed to the backward pass that the parameter holds,
\* though reclamation asks every quantity again after the quantities computed
C23_ReclaimsWhatCallHanded ==
    [][Track =>
          /\ pc' = "tracked"
          /\ \A p \in Parameters(tproblem.net) :
                 /\ param_fields'[p] \subseteq param_fields[p]
                 /\ param_fields[p] \ param_fields'[p] = param_fields[p] \cap SaveFields(ext)
                 /\ NetRequiresGrad(tproblem.net)[p] =>
                        param_fields[p] \ param_fields'[p] = SaveFields(ext)]_vars

\* a track call took the fields of two requests from a parameter after a quantity
\* took its observation
C23_Witness ==
    /\ pc = "tracked"
    /\ Cardinality(SaveFields(ext)) = 2
    /\ ctx.kind = "backpack"
    /\ \E p \in Parameters(tproblem.net) :
           NetRequiresGrad(tproblem.net)[p] /\ param_fields[p] = {}
    /\ \E i \in DOMAIN quantities : global_step \in qstate[i].observed

-----------------------------------------------------------------------------
(* Further claims about buffer reclamation (SpecReclaim) *)

\* how often the walk of the call called remove_module_io on module m
TimesStripped(m) ==
    LET visits == walk_net_io(arg.net, arg.fields).visits
    IN  Cardinality({k \in DOMAIN visits : visits[k] = m})

\* C24: _free_backpack_io strips the input and output fields from every module without
\* children, each exactly once, whatever the shape and depth of the module tree; a
\* module that has children is only walked through and keeps every field it holds
C24_LeavesStrippedOnce ==
    fn = "free_backpack_io" =>
        \A m \in Modules(arg.net) :
            IF has_children(arg.net, m)
            THEN TimesStripped(m) = 0 /\ res.val[m] = arg.fields[m]
            ELSE TimesStripped(m) = 1 /\ res.val[m] = arg.fields[m] \ Range(io_fields)

\* in a tree of depth three a module with children kept its input and output, the leaf
\* below it and the leaf next to it lost theirs
C24_Witness ==
    /\ fn = "free_backpack_io"
    /\ \E c \in Modules(arg.net) : \E below, beside \in Leaves(arg.net) :
           /\ c # 1
           /\ below # beside
           /\ NetChildren(arg.net)[c] = << below >>
           /\ Range(io_fields) \subseteq res.val[c]
           /\ Range(io_fields) \subseteq arg.fields[below]
           /\ Range(io_fields) \subseteq arg.fields[beside]
           /\ res.val[below] = {}
           /\ res.val[beside] = {}

-----------------------------------------------------------------------------
(* Claims about a compute that raises (SpecFail) *)

\* track computes quantity j after quantity i: the quantities that are no MaxEV in the
\* order of the list, then the MaxEV ones in the order of the list
ComputedAfter(i, j) ==
    \/ ~IsMaxEV(quantities[i]) /\ IsMaxEV(quantities[j])
    \/ IsMaxEV(quantities[i]) = IsMaxEV(quantities[j]) /\ i < j

\* C25: when the compute of a quantity raises during track(s), track ends with that
\* exception; the quantities that come after it in track's order are not computed for
\* s, and when it is no MaxEV quantity reclamation does not run: every parameter and
\* module keeps the fields it held
C25_ComputeRaisePropagates ==
    [][\A i \in DOMAIN quantities : TrackWith({i}) =>
          /\ pc' = "failed"
          /\ err' = "RuntimeError"
          /\ \A j \in DOMAIN quantities : (j = i \/ ComputedAfter(i, j)) =>
                 /\ qoutput'[j] = qoutput[j]
                 /\ qstate'[j] = qstate[j]
                 /\ \A k \in DOMAIN events' : events'[k] # Event("compute", j)
          /\ ~IsMaxEV(quantities[i]) =>
                 /\ param_fields' = param_fields
                 /\ module_fields' = module_fields
                 /\ \A k \in DOMAIN events' :
                        events'[k].op \notin {"free_buffers", "free_io"}]_vars

\* the compute of the second of two quantities that are no MaxEV raised after the first
\* was computed; the fields of the step are still attached
C25_Witness ==
    /\ pc = "failed"
    /\ err = "RuntimeError"
    /\ events = << Event("compute", 1), Event("raise", 2) >>
    /\ global_step \in DOMAIN qoutput[1]
    /\ \E p \in Parameters(tproblem.net) : param_fields[p] # {}
    /\ \E m \in Modules(tproblem.net) : module_fields[m] # {}

-----------------------------------------------------------------------------
(* Further claims about the combined log (SpecLog) *)

\* every value the quantities hold is in the combined log out
QuantityValuesIn(out) ==
    \A i \in DOMAIN qoutput : \A s \in DOMAIN qoutput[i] :
        /\ s \in DOMAIN out
        /\ \A k \in DOMAIN qoutput[i][s] :
               k \in DOMAIN out[s] /\ out[s][k] = qoutput[i][s][k]

\* C26: write can be called again. A write right after a write that returned, with no
\* track or log in between, returns too and leaves the combined log as the first left
\* it; a write after an earlier one and further steps returns, keeps what the combined
\* log held and adds the values of the new steps
C26_WriteAgain ==
    [][Write =>
          /\ pc' # "failed" =>
                 /\ WriteLoop(qoutput', output') = Returned(output')
                 /\ logfile'.content = json_dump(output')
          /\ logfile.exists =>
                 /\ pc' # "failed"
                 /\ ValuesKept(output, output')
                 /\ QuantityValuesIn(output')]_vars

\* the log file was written twice and holds the values of the first and of a later step
C26_Witness ==
    /\ pc = "tracked"
    /\ logfile.writes = 2
    /\ global_step > 0
    /\ {"0", ToString(global_step)} \subseteq DOMAIN logfile.content
    /\ \E i \in DOMAIN qoutput : {0, global_step} \subseteq DOMAIN qoutput[i]

-----------------------------------------------------------------------------
(* _collect_quantities applied to drawn configurations (SpecCollect) *)

InitCollect ==
    /\ fn = "none"
    /\ arg \in [quantities : {NoneQuantities}
                                \cup {ListedQuantities(l) : l \in SeqsUpTo(Entries, MaxQuantities)},
                 track_interval : TrackIntervals]
    /\ res = Returned(<< >>)
    /\ CockpitAtRest

\* Cockpit._collect_quantities(arg.quantities, arg.track_interval)
CollectQuantitiesCall ==
    /\ fn = "none"
    /\ fn' = "collect_quantities"
    /\ res' = Returned(collect_quantities(arg.quantities, arg.track_interval))
    /\ UNCHANGED << arg, cockpitVars >>

NextCollect == CollectQuantitiesCall

SpecCollect == InitCollect /\ [][NextCollect]_vars

\* the list _collect_quantities walks: the configured one, the default one for None
ConfiguredList == IF arg.quantities.none THEN default_quantities ELSE arg.quantities.list

\* the positions of a list of quantities that hold an instance of class cls
InstancesOf(cls, qs) == {i \in DOMAIN qs : qs[i].cls = cls}

\* C27: _collect_quantities returns one owned quantity per entry of the configured list,
\* in the order of the list: a class entry gives an instance of that class with the
\* cockpit's track_interval, an instance entry is kept as it is (own track_interval
\* included), and None stands for the default list, of which every class then has
\* exactly one owned instance
C27_CollectOneToOne ==
    fn = "collect_quantities" =>
        /\ res.raised = "none"
        /\ Len(res.val) = Len(ConfiguredList)
        /\ \A i \in DOMAIN ConfiguredList :
               IF ConfiguredList[i].isclass
               THEN res.val[i] = [cls |-> ConfiguredList[i].q.cls,
                                  track_interval |-> arg.track_interval]
               ELSE res.val[i] = ConfiguredList[i].q
        /\ \A cls \in {ConfiguredList[i].q.cls : i \in DOMAIN ConfiguredList} :
               Cardinality(InstancesOf(cls, res.val))
                   = Cardinality(InstancesOf(cls, [i \in DOMAIN ConfiguredList |->
                                                      ConfiguredList[i].q]))
        /\ arg.quantities.none =>
               \A i \in DOMAIN default_quantities :
                   Cardinality(InstancesOf(default_quantities[i].q.cls, res.val)) = 1

\* a class and an instance with another track_interval than the cockpit's were collected
C27_Witness ==
    /\ fn = "collect_quantities"
    /\ ~arg.quantities.none
    /\ Len(arg.quantities.list) = 2
    /\ arg.quantities.list[1].isclass
    /\ ~arg.quantities.list[2].isclass
    /\ arg.quantities.list[2].q.track_interval # arg.track_interval
    /\ res.val[1].track_interval = arg.track_interval
    /\ res.val[2] = arg.quantities.list[2].q

====
